---- MODULE Spec2Model ----
(***************************************************************************)
(* Verification model of firestore-db-and-auth-rs: the retry engine        *)
(* (src/backoff.rs) and the operation builders that use it                 *)
(* (src/documents/read.rs, query.rs, write.rs).                            *)
(*                                                                         *)
(* Time is counted in ticks of 250 ms.  One `call` is one invocation of a  *)
(* public function; every step of it is one invocation of the operation    *)
(* (one HTTP attempt) or one wait between two attempts.                    *)
(***************************************************************************)
EXTENDS Integers, Sequences, FiniteSets, TLC

VARIABLES
    call,      \* the operation call under observation
    twin,      \* the async counterpart of `call`, fed the same attempt outcomes
    store,     \* the documents the server holds
    status,    \* input of the HTTP status classifier
    verdict,   \* its answer: "unknown", "retryable" or "final"
    iter,      \* a Query value being iterated
    reply,     \* the 2xx answer to a write and what the call makes of it
    token,     \* the access token the credentials hold at the moment
    peer       \* a second call, running at the same time as `call`

vars == <<call, twin, store, status, verdict, iter, reply, token, peer>>

---------------------------------------------------------------------------
(* Bounds of the model *)

\* largest max_elapsed_time (seconds) handed to exp_backoff / exp_backoff_async
MaxElapsedSecs == 2
\* longest duration of one invocation of the operation, in ticks
MaxAttemptTicks == 1
\* longest list of envelopes a Query is built from
MaxEnvelopes == 4
\* calls of next() made after the Query has ended
MaxNones == 2
\* longest name of an answered Document, in characters
MaxNameLen == 4
\* largest max_elapsed_time (seconds) of two calls that run at the same time
ConcurrentSecs == 0
\* longest orderby_value handed to query / query_async
MaxOrders == 2

---------------------------------------------------------------------------
(* Constants of the program *)

\* pub const FIRESTORE_REQUEST_RETRY_MAX_ELAPSED_TIME: u64 = 30;
FIRESTORE_REQUEST_RETRY_MAX_ELAPSED_TIME == 30
\* Duration::from_secs: one second is four ticks of 250 ms
TicksPerSec == 4
\* ExponentialBackoff::default(): initial_interval 500 ms
InitialInterval == 2
\* ExponentialBackoff::default(): max_interval 60 s
MaxInterval == 240
\* status: u16
U16Max == 65535

---------------------------------------------------------------------------
(* Values *)

Payload(t, s, c) == [type |-> t, status |-> s, ctx |-> c]
NoPayload == Payload("None", 0, "")

Outcome(k, p) == [kind |-> k, val |-> p]
NoOutcome == Outcome("None", NoPayload)

\* what the caller of the operation gets back
NoResult == [tag |-> "None", val |-> NoPayload]
Ok(p) == [tag |-> "Ok", val |-> p]
Err(p) == [tag |-> "Err", val |-> p]

\* statuses a server may answer with: the class boundaries of the classifier
Statuses == {200, 404, 408, 409, 429, 500, 599, 600}
Bodies == {"json", "null", "malformed"}
\* the document name read_by_name is called with, the collection id of query
ResourceOf(op) ==
    IF op \in {"read_by_name", "read_by_name_async"} THEN "tests/doc" ELSE "tests"

\* outcome of reqwest's send(): a transport failure or a response
SendFailed == [failed |-> TRUE, status |-> 0, body |-> "none"]
Response(s, b) == [failed |-> FALSE, status |-> s, body |-> b]
SendResults ==
    {SendFailed}
    \cup {Response(s, "json") : s \in Statuses}
    \cup {Response(s, b) : s \in {200}, b \in Bodies}

\* outcomes of the caller-supplied operation of exp_backoff / exp_backoff_async
OpErrors == {Payload("E", 0, "e1"), Payload("E", 0, "e2")}
OpOutcomes ==
    {Outcome("Ok", Payload("V", 0, "v1"))}
    \cup {Outcome(k, e) : k \in {"Transient", "Permanent"}, e \in OpErrors}

\* Option<T>
None == [some |-> FALSE, v |-> ""]
Some(x) == [some |-> TRUE, v |-> x]
\* Option<T> of a structured value: a list of at most one element
Absent == <<>>
Present(x) == <<x>>

---------------------------------------------------------------------------
(* backoff.rs *)

\* a classifier whose 5xx range starts one too late
retryable_http_status_above_500(s) ==
    s = 408 \/ s = 409 \/ s = 429 \/ (s > 500 /\ s < 600)

\* HTTP status which should be able for exponential backoff
retryable_http_status(s) ==
    s = 408 \/ s = 409 \/ s = 429 \/ (s >= 500 /\ s < 600)

\* the budget taken for minutes instead of seconds
from_mins(secs) == secs * 60 * TicksPerSec

\* backoff.max_elapsed_time = Some(Duration::from_secs(max_elapsed_time))
from_secs(secs) == secs * TicksPerSec

\* ExponentialBackoff: current_interval * multiplier (1.5), capped at max_interval
increment_current_interval(cur) ==
    IF cur * 3 >= MaxInterval * 2 THEN MaxInterval ELSE (cur * 3) \div 2

\* ExponentialBackoff: the interval randomized by the factor 0.5;
\* j = -1, 0, 1 stands for the least, the middle and the largest draw
randomized_interval(cur, j) == cur + j * (cur \div 2)
Jitter == {-1, 0, 1}

\* a backoff whose clock is one for all the calls under way
next_backoff_shared_clock(c, now, j) ==
    IF now + peer.elapsed > from_secs(c.max_elapsed_time)
    THEN [some |-> FALSE, interval |-> 0]
    ELSE [some |-> TRUE, interval |-> randomized_interval(c.current_interval, j)]

\* ExponentialBackoff::next_backoff: None once the elapsed time exceeds the
\* budget, else the next interval
next_backoff(c, now, j) ==
    IF now > from_secs(c.max_elapsed_time)
    THEN [some |-> FALSE, interval |-> 0]
    ELSE [some |-> TRUE, interval |-> randomized_interval(c.current_interval, j)]

\* bookkeeping of one invocation of the operation, which took d ticks
Invoked(c, out, d) ==
    [c EXCEPT !.attempts = @ + 1,
              !.elapsed = @ + d,
              !.last = out,
              !.first = IF c.attempts = 0
                        THEN (IF out.kind = "Transient" THEN Outcome("Transient", NoPayload) ELSE out)
                        ELSE @]

\* a loop that retries a Permanent error like a Transient one
retry_permanent_retried(c, out, d, j) ==
    LET c1 == Invoked(c, out, d)
        nb == next_backoff(c1, c1.elapsed, j)
    IN  CASE out.kind = "Ok" ->
                [c1 EXCEPT !.pc = "Returned", !.raw = Outcome("Ok", out.val)]
          [] OTHER ->
                IF nb.some
                THEN [c1 EXCEPT !.pc = "Waiting",
                                !.wait = nb.interval,
                                !.current_interval = increment_current_interval(@)]
                ELSE [c1 EXCEPT !.pc = "Returned", !.raw = Outcome(out.kind, out.val)]

\* a loop that takes a success for one more reason to try again
retry_after_success(c, out, d, j) ==
    LET c1 == Invoked(c, out, d)
        nb == next_backoff(c1, c1.elapsed, j)
    IN  CASE out.kind = "Permanent" ->
                [c1 EXCEPT !.pc = "Returned", !.raw = Outcome("Permanent", out.val)]
          [] OTHER ->
                IF nb.some
                THEN [c1 EXCEPT !.pc = "Waiting",
                                !.wait = nb.interval,
                                !.current_interval = increment_current_interval(@)]
                ELSE [c1 EXCEPT !.pc = "Returned", !.raw = Outcome(out.kind, out.val)]

\* a loop that looks at the budget before it invokes the operation, and
\* gives up unattempted when none is left
retry_budget_first(c, out, d, j) ==
    LET c1 == Invoked(c, out, d)
        nb == next_backoff(c1, c1.elapsed, j)
    IN  IF c.attempts = 0 /\ c.elapsed >= from_secs(c.max_elapsed_time)
        THEN [c EXCEPT !.pc = "Returned", !.raw = Outcome("Transient", NoPayload)]
        ELSE CASE out.kind = "Ok" ->
                    [c1 EXCEPT !.pc = "Returned", !.raw = Outcome("Ok", out.val)]
               [] out.kind = "Permanent" ->
                    [c1 EXCEPT !.pc = "Returned", !.raw = Outcome("Permanent", out.val)]
               [] out.kind = "Transient" ->
                    IF nb.some
                    THEN [c1 EXCEPT !.pc = "Waiting",
                                    !.wait = nb.interval,
                                    !.current_interval = increment_current_interval(@)]
                    ELSE [c1 EXCEPT !.pc = "Returned", !.raw = Outcome("Transient", out.val)]

\* Operation::retry (blocking): one turn of the loop
retry(c, out, d, j) ==
    LET c1 == Invoked(c, out, d)
        nb == next_backoff(c1, c1.elapsed, j)
    IN  CASE out.kind = "Ok" ->
                [c1 EXCEPT !.pc = "Returned", !.raw = Outcome("Ok", out.val)]
          [] out.kind = "Permanent" ->
                [c1 EXCEPT !.pc = "Returned", !.raw = Outcome("Permanent", out.val)]
          [] out.kind = "Transient" ->
                IF nb.some
                THEN [c1 EXCEPT !.pc = "Waiting",
                                !.wait = nb.interval,
                                !.current_interval = increment_current_interval(@)]
                ELSE [c1 EXCEPT !.pc = "Returned", !.raw = Outcome("Transient", out.val)]

\* a polling loop that never looks at the budget
with_backoff_unbudgeted(c, out, d, j) ==
    LET c1 == Invoked(c, out, d)
    IN  CASE out.kind = "Ok" ->
                [c1 EXCEPT !.pc = "Returned", !.raw = Outcome("Ok", out.val)]
          [] out.kind = "Permanent" ->
                [c1 EXCEPT !.pc = "Returned", !.raw = Outcome("Permanent", out.val)]
          [] out.kind = "Transient" ->
                [c1 EXCEPT !.pc = "Waiting",
                           !.wait = randomized_interval(c1.current_interval, j),
                           !.current_interval = increment_current_interval(@)]

\* BackoffExt::with_backoff (async): one turn of the polling loop
with_backoff(c, out, d, j) ==
    LET c1 == Invoked(c, out, d)
        nb == next_backoff(c1, c1.elapsed, j)
    IN  CASE out.kind = "Ok" ->
                [c1 EXCEPT !.pc = "Returned", !.raw = Outcome("Ok", out.val)]
          [] out.kind = "Permanent" ->
                [c1 EXCEPT !.pc = "Returned", !.raw = Outcome("Permanent", out.val)]
          [] out.kind = "Transient" ->
                IF nb.some
                THEN [c1 EXCEPT !.pc = "Waiting",
                                !.wait = nb.interval,
                                !.current_interval = increment_current_interval(@)]
                ELSE [c1 EXCEPT !.pc = "Returned", !.raw = Outcome("Transient", out.val)]

\* .map_err(|err| match err { Permanent(err) => err, Transient(err) => err })
map_err(raw) ==
    CASE raw.kind = "Ok" -> Ok(raw.val)
      [] raw.kind = "Permanent" -> Err(raw.val)
      [] raw.kind = "Transient" -> Err(raw.val)

\* pub fn exp_backoff(f, max_elapsed_time): one turn; the engine's answer is
\* in .engine once the loop has returned
exp_backoff(c, out, d, j) ==
    LET c1 == retry(c, out, d, j)
    IN  IF c1.pc = "Returned"
        THEN [c1 EXCEPT !.engine = map_err(c1.raw)]
        ELSE c1

\* pub async fn exp_backoff_async(f, max_elapsed_time)
exp_backoff_async(c, out, d, j) ==
    LET c1 == with_backoff(c, out, d, j)
    IN  IF c1.pc = "Returned"
        THEN [c1 EXCEPT !.engine = map_err(c1.raw)]
        ELSE c1

---------------------------------------------------------------------------
(* The request of one attempt *)

\* what a call assembles before its first attempt: verb, url and body
NoRequest ==
    [verb |-> "", target |-> [kind |-> "", id |-> ""], query |-> <<>>,
     json |-> [fields |-> [some |-> FALSE, keys |-> <<>>]]]

\* the tokens the credentials hold over time: the one at the start of a call
\* and the one after a refresh
Tokens == {"t0", "t1"}

\* auth.access_token(): the token the credentials hold now
access_token == token

\* builder.bearer_auth(token): the request as it goes out
bearer_auth(req, t) ==
    [verb |-> req.verb, target |-> req.target, query |-> req.query,
     json |-> req.json, bearer |-> t]

NoSent == bearer_auth(NoRequest, "")

\* an attempt that carries the token the first attempt read
Requested_with_cached_token(c) ==
    LET out == bearer_auth(c.request,
                           IF c.requests = 0 THEN access_token ELSE c.first_sent.bearer)
    IN  [c EXCEPT !.requests = @ + 1,
                  !.sent = out,
                  !.first_sent = IF c.requests = 0 THEN out ELSE @]

\* an attempt that assembles its url anew, and differently after the first
Requested_with_new_url(c) ==
    LET req == IF c.requests = 0 THEN c.request
               ELSE [c.request EXCEPT !.target.id = "retry"]
        out == bearer_auth(req, access_token)
    IN  [c EXCEPT !.requests = @ + 1,
                  !.sent = out,
                  !.first_sent = IF c.requests = 0 THEN out ELSE @]

\* auth.client().get(&url).bearer_auth(auth.access_token().to_owned()).send():
\* the request of this attempt, built from the url and body of the call and
\* the token read now
Requested(c) ==
    LET out == bearer_auth(c.request, access_token)
    IN  [c EXCEPT !.requests = @ + 1,
                  !.sent = out,
                  !.first_sent = IF c.requests = 0 THEN out ELSE @]

---------------------------------------------------------------------------
(* errors.rs, as the specification describes it (section 4.3) *)

\* a 2xx response passes through unchanged; any other status becomes an
\* ApiError carrying the HTTP status and the resource identifier
extract_google_api_error(resp, context) ==
    IF resp.status >= 200 /\ resp.status < 300
    THEN [ok |-> TRUE, val |-> Payload("Response", resp.status, resp.body)]
    ELSE [ok |-> FALSE, val |-> Payload("ApiError", resp.status, context)]

extract_google_api_error_async(resp, context) ==
    IF resp.status >= 200 /\ resp.status < 300
    THEN [ok |-> TRUE, val |-> Payload("Response", resp.status, resp.body)]
    ELSE [ok |-> FALSE, val |-> Payload("ApiError", resp.status, context)]

\* FirebaseError::from(reqwest::Error)
NetworkError == Payload("Network", 0, "")
\* FirebaseError from a body that does not deserialize
ParseError == Payload("Parse", 0, "")

---------------------------------------------------------------------------
(* documents/read.rs *)

\* let url = firebase_url_base(document_name.as_ref()); ... .get(&url)
read_by_name_request(document_name) ==
    [verb |-> "GET", target |-> [kind |-> "document", id |-> document_name],
     query |-> <<>>, json |-> NoRequest.json]

\* read_by_name_async: the same url and verb
read_by_name_async_request(document_name) ==
    [verb |-> "GET", target |-> [kind |-> "document", id |-> document_name],
     query |-> <<>>, json |-> NoRequest.json]

\* a closure with the two branches of the classification swapped
read_by_name_op_swapped(send, document_name) ==
    IF send.failed
    THEN Outcome("Permanent", NetworkError)
    ELSE LET r == extract_google_api_error(send, document_name)
         IN  IF r.ok
             THEN Outcome("Ok", r.val)
             ELSE IF retryable_http_status(send.status)
                  THEN Outcome("Permanent", r.val)
                  ELSE Outcome("Transient", r.val)

\* the closure handed to exp_backoff by read_by_name: one HTTP attempt
read_by_name_op(send, document_name) ==
    IF send.failed
    THEN Outcome("Permanent", NetworkError)
    ELSE LET r == extract_google_api_error(send, document_name)
         IN  IF r.ok
             THEN Outcome("Ok", r.val)
             ELSE IF retryable_http_status(send.status)
                  THEN Outcome("Transient", r.val)
                  ELSE Outcome("Permanent", r.val)

\* the closure handed to exp_backoff_async by read_by_name_async
read_by_name_async_op(send, document_name) ==
    IF send.failed
    THEN Outcome("Permanent", NetworkError)
    ELSE LET r == extract_google_api_error_async(send, document_name)
         IN  IF r.ok
             THEN Outcome("Ok", r.val)
             ELSE IF retryable_http_status(send.status)
                  THEN Outcome("Transient", r.val)
                  ELSE Outcome("Permanent", r.val)

\* the caller's side of `exp_backoff(..)?`: an error of the engine ends the call
Finish(c, res) ==
    [c EXCEPT !.pc = IF res.tag = "Ok" THEN "Success" ELSE "Failed",
              !.result = res]

\* a deserialization that answers a body it cannot read with an empty value
read_json_or_default(resp) ==
    IF resp.ctx = "json" THEN Ok(Payload("Pod", resp.status, "json"))
    ELSE Ok(Payload("Pod", resp.status, "default"))

\* let json: dto::Document = resp.json()?; Ok(document_to_pod(&json)?)
read_json(resp) ==
    IF resp.ctx = "json" THEN Ok(Payload("Pod", resp.status, "json")) ELSE Err(ParseError)

\* pub fn read_by_name: one attempt of the call, and its end when the engine returns
read_by_name(c, in) ==
    LET c0 == [Requested(c) EXCEPT !.last_send = in.send]
        c1 == exp_backoff(c0, read_by_name_op(in.send, c.resource), in.d, in.j)
    IN  IF c1.pc # "Returned" THEN c1
        ELSE IF c1.engine.tag = "Err" THEN Finish(c1, c1.engine)
        ELSE Finish(c1, read_json(c1.engine.val))

\* pub async fn read_by_name_async
read_by_name_async(c, in) ==
    LET c0 == [Requested(c) EXCEPT !.last_send = in.send]
        c1 == exp_backoff_async(c0, read_by_name_async_op(in.send, c.resource), in.d, in.j)
    IN  IF c1.pc # "Returned" THEN c1
        ELSE IF c1.engine.tag = "Err" THEN Finish(c1, c1.engine)
        ELSE Finish(c1, read_json(c1.engine.val))

---------------------------------------------------------------------------
(* documents/query.rs *)

\* collection_id, and the where_value and orderby_value a caller may give
CollectionIds == {"tests", "users"}
FieldPaths == {"id", "age"}
FieldOperators == {"EQUAL", "LESS_THAN"}
JsonValues == {[type |-> "String", text |-> "Sam Weiss"], [type |-> "Number", text |-> "42"]}
WhereValues ==
    {Absent} \cup {Present([value |-> v, op |-> o, field |-> f]) :
                        v \in JsonValues, o \in FieldOperators, f \in FieldPaths}
OrderByValues ==
    {Absent} \cup {Present(l) : l \in UNION {[1..n -> [field : FieldPaths, asc : BOOLEAN]] :
                                                n \in 0..MaxOrders}}

\* crate::firebase_rest_to_rust::serde_value_to_firebase_value: the value in
\* the tagged representation of the database
serde_value_to_firebase_value(v) ==
    [tag |-> IF v.type = "String" THEN "stringValue" ELSE "integerValue", text |-> v.text]

\* a body in which the ascending orders are the ones marked "desc"
query_request_ascending_desc(collection_id, where_value, orderby_value) ==
    LET Order(o) == [field |-> Present([field_path |-> o.field]),
                     direction |-> IF o.asc THEN Present("desc") ELSE Absent]
    IN  [structured_query |-> Present(
            [select |-> Present([fields |-> Absent]),
             from |-> Present(<< [collection_id |-> Present(collection_id)] >>),
             where_ |->
                IF where_value = Absent THEN Absent
                ELSE Present([field_filter |-> Present(
                        [value |-> serde_value_to_firebase_value(where_value[1].value),
                         op |-> where_value[1].op,
                         field |-> [field_path |-> where_value[1].field]])]),
             order_by |->
                IF orderby_value = Absent THEN Absent
                ELSE Present([i \in DOMAIN orderby_value[1] |-> Order(orderby_value[1][i])])])]

\* let mut structured_query = dto::StructuredQuery { .. }; if let Some(wv) =
\* where_value { .. } if let Some(ov) = orderby_value { .. }
\* let query_request = dto::RunQueryRequest { structured_query: Some(..), .. }
query_request(collection_id, where_value, orderby_value) ==
    LET Order(o) == [field |-> Present([field_path |-> o.field]),
                     direction |-> IF o.asc THEN Absent ELSE Present("desc")]
    IN  [structured_query |-> Present(
            [select |-> Present([fields |-> Absent]),
             from |-> Present(<< [collection_id |-> Present(collection_id)] >>),
             where_ |->
                IF where_value = Absent THEN Absent
                ELSE Present([field_filter |-> Present(
                        [value |-> serde_value_to_firebase_value(where_value[1].value),
                         op |-> where_value[1].op,
                         field |-> [field_path |-> where_value[1].field]])]),
             order_by |->
                IF orderby_value = Absent THEN Absent
                ELSE Present([i \in DOMAIN orderby_value[1] |-> Order(orderby_value[1][i])])])]

\* query: let url = firebase_url_query(auth.project_id()); .post(&url)
\* .json(&query_request)
query_call_request(collection_id, where_value, orderby_value) ==
    [verb |-> "POST", target |-> [kind |-> "runQuery", id |-> ""], query |-> <<>>,
     json |-> query_request(collection_id, where_value, orderby_value)]

\* query_async: the same url, verb and body
query_async_call_request(collection_id, where_value, orderby_value) ==
    [verb |-> "POST", target |-> [kind |-> "runQuery", id |-> ""], query |-> <<>>,
     json |-> query_request(collection_id, where_value, orderby_value)]

\* the closure handed to exp_backoff by query: one HTTP attempt
query_op(send, collection_id) ==
    IF send.failed
    THEN Outcome("Permanent", NetworkError)
    ELSE LET r == extract_google_api_error(send, collection_id)
         IN  IF r.ok
             THEN Outcome("Ok", r.val)
             ELSE IF retryable_http_status(send.status)
                  THEN Outcome("Transient", r.val)
                  ELSE Outcome("Permanent", r.val)

\* the closure handed to exp_backoff_async by query_async
query_async_op(send, collection_id) ==
    IF send.failed
    THEN Outcome("Permanent", NetworkError)
    ELSE LET r == extract_google_api_error_async(send, collection_id)
         IN  IF r.ok
             THEN Outcome("Ok", r.val)
             ELSE IF retryable_http_status(send.status)
                  THEN Outcome("Transient", r.val)
                  ELSE Outcome("Permanent", r.val)

\* let json: Option<Vec<dto::RunQueryResponse>> = resp.json()?;
\* Ok(Query(json.unwrap_or_default().into_iter()))
query_json(resp) ==
    CASE resp.ctx = "json" -> Ok(Payload("Query", resp.status, "list"))
      [] resp.ctx = "null" -> Ok(Payload("Query", resp.status, "empty"))
      [] OTHER -> Err(ParseError)

\* a query whose closure sends the request a second time by itself when the
\* status is a retryable one
query_resending(c, in) ==
    LET c0 == [(IF ~in.send.failed /\ retryable_http_status(in.send.status)
                THEN Requested(Requested(c)) ELSE Requested(c))
                  EXCEPT !.last_send = in.send]
        c1 == exp_backoff(c0, query_op(in.send, c.resource), in.d, in.j)
    IN  IF c1.pc # "Returned" THEN c1
        ELSE IF c1.engine.tag = "Err" THEN Finish(c1, c1.engine)
        ELSE Finish(c1, query_json(c1.engine.val))

\* pub fn query
query(c, in) ==
    LET c0 == [Requested(c) EXCEPT !.last_send = in.send]
        c1 == exp_backoff(c0, query_op(in.send, c.resource), in.d, in.j)
    IN  IF c1.pc # "Returned" THEN c1
        ELSE IF c1.engine.tag = "Err" THEN Finish(c1, c1.engine)
        ELSE Finish(c1, query_json(c1.engine.val))

\* pub async fn query_async
query_async(c, in) ==
    LET c0 == [Requested(c) EXCEPT !.last_send = in.send]
        c1 == exp_backoff_async(c0, query_async_op(in.send, c.resource), in.d, in.j)
    IN  IF c1.pc # "Returned" THEN c1
        ELSE IF c1.engine.tag = "Err" THEN Finish(c1, c1.engine)
        ELSE Finish(c1, query_json(c1.engine.val))

---------------------------------------------------------------------------
(* documents/query.rs: the Query iterator *)

\* dto::RunQueryResponse: an envelope that may carry a document
Envelopes == {[document |-> None], [document |-> Some("doc1")], [document |-> Some("doc2")]}

EnvelopeLists == UNION {[1..n -> Envelopes] : n \in 0..MaxEnvelopes}

\* Query(json.unwrap_or_default().into_iter()): nothing asked of it yet
NewQuery(list) ==
    [envelopes |-> list, rest |-> list, yielded |-> <<>>, returned |-> None, nones |-> 0]

NoQuery == NewQuery(<<>>)

RECURSIVE Query_next_unskipped(_)
\* an iterator that hands out an empty item for an envelope without document
Query_next_unskipped(rest) ==
    IF rest = <<>> THEN [item |-> None, rest |-> <<>>]
    ELSE [item |-> Some(Head(rest).document.v), rest |-> Tail(rest)]

RECURSIVE Query_next(_)
\* fn next(&mut self): while let Some(r) = self.0.next() { if let
\* Some(document) = r.document { return Some(document); } } return None;
Query_next(rest) ==
    IF rest = <<>> THEN [item |-> None, rest |-> <<>>]
    ELSE IF Head(rest).document.some
         THEN [item |-> Some(Head(rest).document.v), rest |-> Tail(rest)]
         ELSE Query_next(Tail(rest))

\* one call of next() by the user of the Query
Iterated(it) ==
    LET got == Query_next(it.rest)
    IN  [it EXCEPT !.rest = got.rest,
                   !.returned = got.item,
                   !.yielded = IF got.item.some THEN Append(@, got.item.v) ELSE @,
                   !.nones = IF got.item.some THEN @ ELSE @ + 1]

---------------------------------------------------------------------------
(* documents/query.rs: from the answered body to the Query *)

\* the body of a 2xx answer to a query: the JSON value null, a JSON list of
\* envelopes, or text that is neither
QueryBodies ==
    [ctx : {"null", "malformed"}, list : {<<>>}] \cup [ctx : {"json"}, list : EnvelopeLists]

\* a deserialization into Vec<dto::RunQueryResponse>, which has no place
\* for null
resp_json_null_refused(body) ==
    CASE body.ctx = "json" -> [ok |-> TRUE, some |-> TRUE, v |-> body.list]
      [] OTHER -> [ok |-> FALSE, some |-> FALSE, v |-> <<>>]

\* let json: Option<Vec<dto::RunQueryResponse>> = resp.json()
resp_json(body) ==
    CASE body.ctx = "null" -> [ok |-> TRUE, some |-> FALSE, v |-> <<>>]
      [] body.ctx = "json" -> [ok |-> TRUE, some |-> TRUE, v |-> body.list]
      [] OTHER -> [ok |-> FALSE, some |-> FALSE, v |-> <<>>]

\* Option::unwrap_or_default: the value, or the empty Vec
unwrap_or_default(json) == IF json.some THEN json.v ELSE <<>>

\* the response exp_backoff(..)? hands to the rest of query / query_async
NewAnswer(op, body) == [op |-> op, body |-> body, tag |-> "None", error |-> NoPayload]

\* the rest of the function: resp.json()?; Ok(Query(json.unwrap_or_default().into_iter()))
query_result(r) ==
    LET json == resp_json(r.body)
    IN  IF json.ok
        THEN [reply |-> [r EXCEPT !.tag = "Ok"],
              iter |-> NewQuery(unwrap_or_default(json))]
        ELSE [reply |-> [r EXCEPT !.tag = "Err", !.error = ParseError],
              iter |-> NoQuery]

---------------------------------------------------------------------------
(* Requests of documents/write.rs *)

\* A URL is the target the url helpers of the crate format (a document or a
\* collection) and the text write.rs appends to it, a sequence of symbols:
\* the characters of field names and the words of the query string.
FieldNames == {<<"a">>, <<"b">>, <<"a", "&", "b">>}
DocumentIds == {"d1"}

RECURSIVE Distinct(_)
Distinct(s) ==
    \/ s = <<>>
    \/ /\ \A i \in 2..Len(s) : s[i] # Head(s)
       /\ Distinct(Tail(s))

\* the keys of a field map, in the order the map happens to iterate them
KeyOrders ==
    {s \in UNION {[1..n -> FieldNames] : n \in 0..Cardinality(FieldNames)} : Distinct(s)}

Range(s) == {s[i] : i \in 1..Len(s)}

\* pod_to_document(&document): a Document whose field map is optional
Documents ==
    {[fields |-> [some |-> FALSE, keys |-> <<>>]]}
    \cup {[fields |-> [some |-> TRUE, keys |-> k]] : k \in KeyOrders}

RECURSIVE update_mask(_)
\* for f in fields { url += &format!("&updateMask.fieldPaths={}", f); }
update_mask(keys) ==
    IF keys = <<>> THEN <<>>
    ELSE <<"&", "updateMask.fieldPaths", "=">> \o Head(keys) \o update_mask(Tail(keys))

\* an assembly that takes the verb from the merge option instead of the id
write_request_verb_by_merge(document_id, firebase_document, options) ==
    LET target == IF document_id.some
                  THEN [kind |-> "document", id |-> document_id.v]
                  ELSE [kind |-> "collection", id |-> ""]
        suffix == IF options.merge /\ firebase_document.fields.some
                 THEN <<"?", "currentDocument.exists", "=", "true">>
                          \o update_mask(firebase_document.fields.keys)
                 ELSE <<>>
    IN  [verb |-> IF options.merge THEN "PATCH" ELSE "POST",
         target |-> target, query |-> suffix, json |-> firebase_document]

\* write: the url, the verb and the body of the request (before it is sent)
write_request(document_id, firebase_document, options) ==
    LET target == IF document_id.some
                  THEN [kind |-> "document", id |-> document_id.v]
                  ELSE [kind |-> "collection", id |-> ""]
        suffix == IF options.merge /\ firebase_document.fields.some
                 THEN <<"?", "currentDocument.exists", "=", "true">>
                          \o update_mask(firebase_document.fields.keys)
                 ELSE <<>>
    IN  [verb |-> IF document_id.some THEN "PATCH" ELSE "POST",
         target |-> target, query |-> suffix, json |-> firebase_document]

\* write_async: the same assembly on the async client
write_async_request(document_id, firebase_document, options) ==
    LET target == IF document_id.some
                  THEN [kind |-> "document", id |-> document_id.v]
                  ELSE [kind |-> "collection", id |-> ""]
        suffix == IF options.merge /\ firebase_document.fields.some
                 THEN <<"?", "currentDocument.exists", "=", "true">>
                          \o update_mask(firebase_document.fields.keys)
                 ELSE <<>>
    IN  [verb |-> IF document_id.some THEN "PATCH" ELSE "POST",
         target |-> target, query |-> suffix, json |-> firebase_document]

\* create: url = format!("{}documentId={}", url, document_id), POST
create_request(document_id, firebase_document) ==
    [verb |-> "POST",
     target |-> [kind |-> "collection", id |-> ""],
     query |-> <<"documentId", "=", document_id>>,
     json |-> firebase_document]

\* create_async
create_async_request(document_id, firebase_document) ==
    [verb |-> "POST",
     target |-> [kind |-> "collection", id |-> ""],
     query |-> <<"documentId", "=", document_id>>,
     json |-> firebase_document]

---------------------------------------------------------------------------
(* The request as the server reads it *)

RECURSIVE SplitOn(_, _)
\* the pieces of s between the separators
SplitOn(s, sep) ==
    IF s = <<>> THEN << <<>> >>
    ELSE LET rest == SplitOn(Tail(s), sep)
         IN  IF Head(s) = sep
             THEN << <<>> >> \o rest
             ELSE << <<Head(s)>> \o Head(rest) >> \o Tail(rest)

\* key=value pairs of a query string
QueryParams(q) ==
    LET text == IF q # <<>> /\ Head(q) = "?" THEN Tail(q) ELSE q
        pieces == IF text = <<>> THEN <<>> ELSE SplitOn(text, "&")
        Pair(piece) ==
            LET kv == SplitOn(piece, "=")
            IN  [key |-> Head(kv), value |-> IF Len(kv) > 1 THEN kv[2] ELSE <<>>]
    IN  [i \in 1..Len(pieces) |-> Pair(pieces[i])]

ParamValues(q, key) ==
    LET ps == QueryParams(q)
        idx == {i \in 1..Len(ps) : ps[i].key = key}
    IN  [i \in idx |-> ps[i].value]

\* the entries of the request's update mask: index -> field path
FieldMask(req) == ParamValues(req.query, <<"updateMask.fieldPaths">>)
MaskPaths(req) == {FieldMask(req)[i] : i \in DOMAIN FieldMask(req)}

\* the request asserts that the target document exists
AssertsExists(req) ==
    \E i \in DOMAIN ParamValues(req.query, <<"currentDocument.exists">>) :
        ParamValues(req.query, <<"currentDocument.exists">>)[i] = <<"true">>

---------------------------------------------------------------------------
(* The database, as the specification describes it (section 4.5) *)

\* the server holds at most the document "d1" and the documents it created
\* under ids of its own; a field is in `old` while it has the value it had
\* before the call and in `new` once the call's document has written it
NoDocument == [exists |-> FALSE, old |-> {}, new |-> {}, generated |-> 0]
OldDocument == [exists |-> TRUE, old |-> {<<"a">>, <<"b">>}, new |-> {}, generated |-> 0]

ParamKeys(req) == {QueryParams(req.query)[i].key : i \in DOMAIN QueryParams(req.query)}

\* the answer of the server to a request, and what it holds afterwards
serve(st, req) ==
    LET F == Range(req.json.fields.keys)
        M == MaskPaths(req)
        Reject(s) == [store |-> st, status |-> s]
        Accept(s) == [store |-> s, status |-> 200]
    IN  IF req.verb = "PATCH"
        THEN IF ~(ParamKeys(req) \subseteq {<<"currentDocument.exists">>, <<"updateMask.fieldPaths">>})
             THEN Reject(400)
             ELSE IF AssertsExists(req) /\ ~st.exists
             THEN Reject(404)
             ELSE IF M = {}
             THEN Accept([st EXCEPT !.exists = TRUE, !.old = {}, !.new = F])
             ELSE Accept([st EXCEPT !.exists = TRUE,
                                    !.old = @ \ M,
                                    !.new = (@ \ M) \cup (M \cap F)])
        ELSE IF ~(ParamKeys(req) \subseteq {<<"documentId">>})
             THEN Reject(400)
             ELSE IF ParamKeys(req) = {}
             THEN Accept([st EXCEPT !.generated = @ + 1])
             ELSE IF st.exists
             THEN Reject(409)
             ELSE Accept([st EXCEPT !.exists = TRUE, !.old = {}, !.new = F])

---------------------------------------------------------------------------
(* documents/write.rs: the attempt *)

\* the document id handed to the error extractor, "" when there is none
write_context(document_id) == IF document_id.some THEN document_id.v ELSE ""

\* let result_document: dto::Document = resp.json()?; ... Ok(WriteResult {..})
write_result(resp) ==
    IF resp.ctx = "json" THEN Ok(Payload("WriteResult", resp.status, "json")) ELSE Err(ParseError)

\* bookkeeping of the one request a write sends
Sent(c, send, d) ==
    [Requested(c) EXCEPT !.attempts = @ + 1,
                         !.elapsed = @ + d,
                         !.last_send = send]

\* a write that waits and sends again after a retryable status
write_retried(c, send, d) ==
    LET c1 == Sent(c, send, d)
        r == extract_google_api_error(send, write_context(c.document_id))
    IN  IF send.failed THEN Finish(c1, Err(NetworkError))
        ELSE IF ~r.ok
             THEN IF retryable_http_status(send.status)
                  THEN [c1 EXCEPT !.pc = "Waiting", !.wait = c1.current_interval]
                  ELSE Finish(c1, Err(r.val))
        ELSE Finish(c1, write_result(r.val))

\* pub fn write: builder.send()?, extract_google_api_error(..)?, the result
write(c, send, d) ==
    LET c1 == Sent(c, send, d)
        r == extract_google_api_error(send, write_context(c.document_id))
    IN  IF send.failed THEN Finish(c1, Err(NetworkError))
        ELSE IF ~r.ok THEN Finish(c1, Err(r.val))
        ELSE Finish(c1, write_result(r.val))

\* pub async fn write_async
write_async(c, send, d) ==
    LET c1 == Sent(c, send, d)
        r == extract_google_api_error_async(send, write_context(c.document_id))
    IN  IF send.failed THEN Finish(c1, Err(NetworkError))
        ELSE IF ~r.ok THEN Finish(c1, Err(r.val))
        ELSE Finish(c1, write_result(r.val))

\* pub fn create
create(c, send, d) ==
    LET c1 == Sent(c, send, d)
        r == extract_google_api_error(send, c.document_id.v)
    IN  IF send.failed THEN Finish(c1, Err(NetworkError))
        ELSE IF ~r.ok THEN Finish(c1, Err(r.val))
        ELSE Finish(c1, write_result(r.val))

\* pub async fn create_async
create_async(c, send, d) ==
    LET c1 == Sent(c, send, d)
        r == extract_google_api_error_async(send, c.document_id.v)
    IN  IF send.failed THEN Finish(c1, Err(NetworkError))
        ELSE IF ~r.ok THEN Finish(c1, Err(r.val))
        ELSE Finish(c1, write_result(r.val))

---------------------------------------------------------------------------
(* documents/write.rs: from the answered Document to the WriteResult *)

\* the name of the answered Document: a text of path separators, dots and
\* other characters
NameChars == {"x", "/", "."}
Names == UNION {[1..n -> NameChars] : n \in 0..MaxNameLen}

\* createTime / updateTime of the answer: absent, or a text
TimeTexts == {"00:00:00Z", "01:00:00+01:00", "midnight"}
Times == {None} \cup {Some(t) : t \in TimeTexts}

\* dto::Document as far as the write functions read it
ResultDocuments == [name : Names, create_time : Times, update_time : Times]

\* Path::new(name).file_name(): the last component of the path if it is a
\* normal one; empty pieces and "." pieces after the first are no components
file_name(name) ==
    LET segs == SplitOn(name, "/")
        comps == {i \in 1..Len(segs) : segs[i] # <<>> /\ ~(segs[i] = <<".">> /\ i > 1)}
        last == CHOOSE i \in comps : \A k \in comps : k <= i
    IN  IF comps = {} THEN None
        ELSE IF segs[last] = <<".">> \/ segs[last] = <<".", ".">> THEN None
        ELSE Some(segs[last])

\* chrono::DateTime::parse_from_rfc3339(&f) ... .with_timezone(&chrono::Utc)
parse_from_rfc3339(f) ==
    CASE f = "00:00:00Z" -> [ok |-> TRUE, utc |-> "00:00:00"]
      [] f = "01:00:00+01:00" -> [ok |-> TRUE, utc |-> "00:00:00"]
      [] OTHER -> [ok |-> FALSE, utc |-> ""]

Generic(text) == Payload("Generic", 0, text)

\* a conversion that drops a timestamp it cannot parse
write_result_lenient(result_document) ==
    LET document_id == file_name(result_document.name)
        Time(t) == IF t.some /\ parse_from_rfc3339(t.v).ok
                   THEN Some(parse_from_rfc3339(t.v).utc) ELSE None
    IN  IF ~document_id.some
        THEN Err(Generic("Resulting documents 'name' field is not a valid path"))
        ELSE Ok([document_id |-> document_id.v,
                 create_time |-> Time(result_document.create_time),
                 update_time |-> Time(result_document.update_time)])

\* let document_id = Path::new(&result_document.name).file_name()...;
\* let create_time = ...; let update_time = ...; Ok(WriteResult { .. })
write_result_of(result_document) ==
    LET document_id == file_name(result_document.name)
        Bad(t) == t.some /\ ~parse_from_rfc3339(t.v).ok
        Time(t) == IF t.some THEN Some(parse_from_rfc3339(t.v).utc) ELSE None
    IN  IF ~document_id.some
        THEN Err(Generic("Resulting documents 'name' field is not a valid path"))
        ELSE IF Bad(result_document.create_time)
        THEN Err(Generic("Failed to parse rfc3339 date from 'create_time' field"))
        ELSE IF Bad(result_document.update_time)
        THEN Err(Generic("Failed to parse rfc3339 date from 'update_time' field"))
        ELSE Ok([document_id |-> document_id.v,
                 create_time |-> Time(result_document.create_time),
                 update_time |-> Time(result_document.update_time)])

\* a 2xx answer with a Document in its body, not yet looked at
NewReply(op, document) == [op |-> op, document |-> document, result |-> NoResult]
NoReply == NewReply("none", [name |-> <<>>, create_time |-> None, update_time |-> None])

\* the rest of the function after `resp.json()?`
Answered(r) == [r EXCEPT !.result = write_result_of(r.document)]

---------------------------------------------------------------------------
(* A caller of the engine with an operation of its own *)

run_exp_backoff(c, in) ==
    LET c1 == exp_backoff(c, in.out, in.d, in.j)
    IN  IF c1.pc # "Returned" THEN c1 ELSE Finish(c1, c1.engine)

run_exp_backoff_async(c, in) ==
    LET c1 == exp_backoff_async(c, in.out, in.d, in.j)
    IN  IF c1.pc # "Returned" THEN c1 ELSE Finish(c1, c1.engine)

---------------------------------------------------------------------------
(* Calls *)

EngineOps == {"exp_backoff", "exp_backoff_async"}
ReadOps == {"read_by_name", "read_by_name_async"}
QueryOps == {"query", "query_async"}
RetryingOps == EngineOps \cup ReadOps \cup QueryOps
BlockingOps == {"exp_backoff", "read_by_name", "query"}
WriteOps == {"write", "write_async"}
CreateOps == {"create", "create_async"}

AsyncOf(op) ==
    CASE op = "exp_backoff" -> "exp_backoff_async"
      [] op = "read_by_name" -> "read_by_name_async"
      [] op = "query" -> "query_async"

\* the state of a call before anything is sent
NewCall(op, resource, secs) ==
    [op |-> op, pc |-> "Building", resource |-> resource,
     max_elapsed_time |-> secs, current_interval |-> InitialInterval,
     elapsed |-> 0, wait |-> 0,
     attempts |-> 0, requests |-> 0, waits |-> 0,
     first |-> NoOutcome, last |-> NoOutcome, last_send |-> SendFailed,
     raw |-> NoOutcome, engine |-> NoResult, result |-> NoResult,
     document_id |-> None, document |-> NoRequest.json, merge |-> FALSE,
     existed |-> FALSE, request |-> NoRequest,
     sent |-> NoSent, first_sent |-> NoSent,
     where_value |-> Absent, orderby_value |-> Absent]

\* a call of write / write_async / create / create_async and its arguments;
\* `existed` notes whether the server held the document "d1" before the call
NewWrite(op, document_id, document, merge, existed) ==
    [NewCall(op, "", 0) EXCEPT !.document_id = document_id,
                               !.document = document,
                               !.merge = merge,
                               !.existed = existed]

\* a call of query / query_async and its arguments
NewQueryCall(op, collection_id, where_value, orderby_value) ==
    [NewCall(op, collection_id, FIRESTORE_REQUEST_RETRY_MAX_ELAPSED_TIME)
        EXCEPT !.where_value = where_value, !.orderby_value = orderby_value]

Idle == NewCall("none", "", 0)

\* the arguments of the query calls whose attempts are followed: a filter
\* and two orders, the first descending
SomeWhere == Present([value |-> [type |-> "String", text |-> "Sam Weiss"],
                      op |-> "EQUAL", field |-> "id"])
SomeOrderBy == Present(<< [field |-> "age", asc |-> FALSE], [field |-> "id", asc |-> TRUE] >>)

NewCalls ==
    {NewCall(op, "op", secs) : op \in EngineOps, secs \in 0..MaxElapsedSecs}
    \cup {NewCall(op, ResourceOf(op), FIRESTORE_REQUEST_RETRY_MAX_ELAPSED_TIME) :
            op \in ReadOps}
    \cup {NewQueryCall(op, ResourceOf(op), SomeWhere, SomeOrderBy) : op \in QueryOps}
    \cup {NewWrite(op, id, doc, m, e) :
            op \in WriteOps, id \in {None} \cup {Some(i) : i \in DocumentIds},
            doc \in Documents, m \in BOOLEAN, e \in BOOLEAN}
    \cup {NewWrite(op, Some(i), doc, FALSE, e) :
            op \in CreateOps, i \in DocumentIds, doc \in Documents, e \in BOOLEAN}

Durations == 0..MaxAttemptTicks
HttpInputs == [send : SendResults, d : Durations, j : Jitter]
OpInputs == [out : OpOutcomes, d : Durations, j : Jitter]
InputsOf(op) == IF op \in EngineOps THEN OpInputs ELSE HttpInputs

\* one invocation of the operation of call c
Step(c, in) ==
    CASE c.op = "exp_backoff" -> run_exp_backoff(c, in)
      [] c.op = "exp_backoff_async" -> run_exp_backoff_async(c, in)
      [] c.op = "read_by_name" -> read_by_name(c, in)
      [] c.op = "read_by_name_async" -> read_by_name_async(c, in)
      [] c.op = "query" -> query(c, in)
      [] c.op = "query_async" -> query_async(c, in)

\* the request the call assembles while Building
RequestOf(c) ==
    CASE c.op = "write" ->
            write_request(c.document_id, c.document, [merge |-> c.merge])
      [] c.op = "write_async" ->
            write_async_request(c.document_id, c.document, [merge |-> c.merge])
      [] c.op = "create" -> create_request(c.document_id.v, c.document)
      [] c.op = "create_async" -> create_async_request(c.document_id.v, c.document)
      [] c.op = "read_by_name" -> read_by_name_request(c.resource)
      [] c.op = "read_by_name_async" -> read_by_name_async_request(c.resource)
      [] c.op = "query" ->
            query_call_request(c.resource, c.where_value, c.orderby_value)
      [] c.op = "query_async" ->
            query_async_call_request(c.resource, c.where_value, c.orderby_value)
      [] OTHER -> NoRequest

\* request assembly is over, the first attempt begins
Started(c) == [c EXCEPT !.pc = "InFlight", !.request = RequestOf(c)]

\* what the transport hands back to a write: its own failure, an error status
\* of a gateway in front of the database, or the answer of the database
WriteInputs ==
    [served : {FALSE}, send : {SendFailed} \cup {Response(s, "json") : s \in Statuses \ {200}},
     d : Durations]
    \cup [served : {TRUE}, send : {Response(200, b) : b \in {"json", "malformed"}},
          d : Durations]

Served(st, req, in) ==
    IF in.served
    THEN [store |-> serve(st, req).store,
          send |-> Response(serve(st, req).status, in.send.body)]
    ELSE [store |-> st, send |-> in.send]

\* thread::sleep(next) / the delay future: the wait before the next attempt
Woken(c) ==
    [c EXCEPT !.pc = "InFlight", !.elapsed = @ + c.wait, !.waits = @ + 1]

---------------------------------------------------------------------------
(* One call *)

Init ==
    /\ call \in NewCalls
    /\ twin = Idle
    /\ store = IF call.existed THEN OldDocument ELSE NoDocument
    /\ status = 0
    /\ verdict = "unknown"
    /\ iter = NoQuery
    /\ reply = NoReply
    /\ token = "t0"
    /\ peer = Idle

Start ==
    /\ call.pc = "Building"
    /\ call' = Started(call)
    /\ UNCHANGED <<twin, store, status, verdict, iter, reply, token, peer>>

ExpBackoff ==
    /\ call.op = "exp_backoff"
    /\ call.pc = "InFlight"
    /\ \E in \in OpInputs : call' = run_exp_backoff(call, in)
    /\ UNCHANGED <<twin, store, status, verdict, iter, reply, token, peer>>

ExpBackoffAsync ==
    /\ call.op = "exp_backoff_async"
    /\ call.pc = "InFlight"
    /\ \E in \in OpInputs : call' = run_exp_backoff_async(call, in)
    /\ UNCHANGED <<twin, store, status, verdict, iter, reply, token, peer>>

ReadByName ==
    /\ call.op = "read_by_name"
    /\ call.pc = "InFlight"
    /\ \E in \in HttpInputs : call' = read_by_name(call, in)
    /\ UNCHANGED <<twin, store, status, verdict, iter, reply, token, peer>>

ReadByNameAsync ==
    /\ call.op = "read_by_name_async"
    /\ call.pc = "InFlight"
    /\ \E in \in HttpInputs : call' = read_by_name_async(call, in)
    /\ UNCHANGED <<twin, store, status, verdict, iter, reply, token, peer>>

Query ==
    /\ call.op = "query"
    /\ call.pc = "InFlight"
    /\ \E in \in HttpInputs : call' = query(call, in)
    /\ UNCHANGED <<twin, store, status, verdict, iter, reply, token, peer>>

QueryAsync ==
    /\ call.op = "query_async"
    /\ call.pc = "InFlight"
    /\ \E in \in HttpInputs : call' = query_async(call, in)
    /\ UNCHANGED <<twin, store, status, verdict, iter, reply, token, peer>>

Write ==
    /\ call.op = "write"
    /\ call.pc = "InFlight"
    /\ \E in \in WriteInputs :
          LET got == Served(store, call.request, in)
          IN  /\ call' = write(call, got.send, in.d)
              /\ store' = got.store
    /\ UNCHANGED <<twin, status, verdict, iter, reply, token, peer>>

WriteAsync ==
    /\ call.op = "write_async"
    /\ call.pc = "InFlight"
    /\ \E in \in WriteInputs :
          LET got == Served(store, call.request, in)
          IN  /\ call' = write_async(call, got.send, in.d)
              /\ store' = got.store
    /\ UNCHANGED <<twin, status, verdict, iter, reply, token, peer>>

Create ==
    /\ call.op = "create"
    /\ call.pc = "InFlight"
    /\ \E in \in WriteInputs :
          LET got == Served(store, call.request, in)
          IN  /\ call' = create(call, got.send, in.d)
              /\ store' = got.store
    /\ UNCHANGED <<twin, status, verdict, iter, reply, token, peer>>

CreateAsync ==
    /\ call.op = "create_async"
    /\ call.pc = "InFlight"
    /\ \E in \in WriteInputs :
          LET got == Served(store, call.request, in)
          IN  /\ call' = create_async(call, got.send, in.d)
              /\ store' = got.store
    /\ UNCHANGED <<twin, status, verdict, iter, reply, token, peer>>

Sleep ==
    /\ call.pc = "Waiting"
    /\ call.op \in BlockingOps
    /\ call' = Woken(call)
    /\ UNCHANGED <<twin, store, status, verdict, iter, reply, token, peer>>

Delay ==
    /\ call.pc = "Waiting"
    /\ call.op \notin BlockingOps
    /\ call' = Woken(call)
    /\ UNCHANGED <<twin, store, status, verdict, iter, reply, token, peer>>

Next ==
    \/ Start
    \/ ExpBackoff
    \/ ExpBackoffAsync
    \/ ReadByName
    \/ ReadByNameAsync
    \/ Query
    \/ QueryAsync
    \/ Write
    \/ WriteAsync
    \/ Create
    \/ CreateAsync
    \/ Sleep
    \/ Delay

Spec == Init /\ [][Next]_vars

---------------------------------------------------------------------------
(* A blocking call and its async counterpart on the same attempt outcomes *)

PairInit ==
    /\ call \in {c \in NewCalls : c.op \in BlockingOps}
    /\ twin = [call EXCEPT !.op = AsyncOf(call.op)]
    /\ store = NoDocument
    /\ status = 0
    /\ verdict = "unknown"
    /\ iter = NoQuery
    /\ reply = NoReply
    /\ token = "t0"
    /\ peer = Idle

PairStart ==
    /\ call.pc = "Building"
    /\ twin.pc = "Building"
    /\ call' = Started(call)
    /\ twin' = Started(twin)
    /\ UNCHANGED <<store, status, verdict, iter, reply, token, peer>>

PairAttempt ==
    /\ call.pc = "InFlight"
    /\ twin.pc = "InFlight"
    /\ \E in \in InputsOf(call.op) :
          /\ call' = Step(call, in)
          /\ twin' = Step(twin, in)
    /\ UNCHANGED <<store, status, verdict, iter, reply, token, peer>>

PairWait ==
    /\ call.pc = "Waiting"
    /\ twin.pc = "Waiting"
    /\ call' = Woken(call)
    /\ twin' = Woken(twin)
    /\ UNCHANGED <<store, status, verdict, iter, reply, token, peer>>

PairNext == PairStart \/ PairAttempt \/ PairWait

PairSpec == PairInit /\ [][PairNext]_vars

---------------------------------------------------------------------------
(* The classifier alone, over every u16 status *)

ClassifierInit ==
    /\ status \in 0..U16Max
    /\ verdict = "unknown"
    /\ call = Idle
    /\ twin = Idle
    /\ store = NoDocument
    /\ iter = NoQuery
    /\ reply = NoReply
    /\ token = "t0"
    /\ peer = Idle

Classify ==
    /\ verdict = "unknown"
    /\ verdict' = IF retryable_http_status(status) THEN "retryable" ELSE "final"
    /\ UNCHANGED <<call, twin, store, status, iter, reply, token, peer>>

ClassifierNext == Classify

ClassifierSpec == ClassifierInit /\ [][ClassifierNext]_vars

---------------------------------------------------------------------------
(* A Query being iterated *)

IterInit ==
    /\ iter \in {NewQuery(list) : list \in EnvelopeLists}
    /\ call = Idle
    /\ twin = Idle
    /\ store = NoDocument
    /\ status = 0
    /\ verdict = "unknown"
    /\ reply = NoReply
    /\ token = "t0"
    /\ peer = Idle

QueryNext ==
    /\ iter.nones < MaxNones
    /\ iter' = Iterated(iter)
    /\ UNCHANGED <<call, twin, store, status, verdict, reply, token, peer>>

IterNext == QueryNext

IterSpec == IterInit /\ [][IterNext]_vars

---------------------------------------------------------------------------
(* The answer to a write being turned into a WriteResult *)

ResultInit ==
    /\ reply \in {NewReply(op, d) : op \in WriteOps \cup CreateOps, d \in ResultDocuments}
    /\ call = Idle
    /\ twin = Idle
    /\ store = NoDocument
    /\ status = 0
    /\ verdict = "unknown"
    /\ iter = NoQuery
    /\ token = "t0"
    /\ peer = Idle

WriteAnswered ==
    /\ reply.op = "write"
    /\ reply.result = NoResult
    /\ reply' = Answered(reply)
    /\ UNCHANGED <<call, twin, store, status, verdict, iter, token, peer>>

WriteAsyncAnswered ==
    /\ reply.op = "write_async"
    /\ reply.result = NoResult
    /\ reply' = Answered(reply)
    /\ UNCHANGED <<call, twin, store, status, verdict, iter, token, peer>>

CreateAnswered ==
    /\ reply.op = "create"
    /\ reply.result = NoResult
    /\ reply' = Answered(reply)
    /\ UNCHANGED <<call, twin, store, status, verdict, iter, token, peer>>

CreateAsyncAnswered ==
    /\ reply.op = "create_async"
    /\ reply.result = NoResult
    /\ reply' = Answered(reply)
    /\ UNCHANGED <<call, twin, store, status, verdict, iter, token, peer>>

ResultNext ==
    \/ WriteAnswered
    \/ WriteAsyncAnswered
    \/ CreateAnswered
    \/ CreateAsyncAnswered

ResultSpec == ResultInit /\ [][ResultNext]_vars

---------------------------------------------------------------------------
(* The answer to a query being turned into a Query and iterated *)

AnswerInit ==
    /\ reply \in {NewAnswer(op, body) : op \in QueryOps, body \in QueryBodies}
    /\ iter = NoQuery
    /\ call = Idle
    /\ twin = Idle
    /\ store = NoDocument
    /\ status = 0
    /\ verdict = "unknown"
    /\ token = "t0"
    /\ peer = Idle

QueryAnswered ==
    /\ reply.op = "query"
    /\ reply.tag = "None"
    /\ reply' = query_result(reply).reply
    /\ iter' = query_result(reply).iter
    /\ UNCHANGED <<call, twin, store, status, verdict, token, peer>>

QueryAsyncAnswered ==
    /\ reply.op = "query_async"
    /\ reply.tag = "None"
    /\ reply' = query_result(reply).reply
    /\ iter' = query_result(reply).iter
    /\ UNCHANGED <<call, twin, store, status, verdict, token, peer>>

\* the caller asks the Query it was handed for its next document
QueryResultNext ==
    /\ reply.tag = "Ok"
    /\ iter.nones < MaxNones
    /\ iter' = Iterated(iter)
    /\ UNCHANGED <<call, twin, store, status, verdict, reply, token, peer>>

AnswerNext ==
    \/ QueryAnswered
    \/ QueryAsyncAnswered
    \/ QueryResultNext

AnswerSpec == AnswerInit /\ [][AnswerNext]_vars

---------------------------------------------------------------------------
(* A read or query call while the credentials refresh their token *)

TokenInit ==
    /\ call \in {c \in NewCalls : c.op \in ReadOps \cup QueryOps}
    /\ twin = Idle
    /\ store = NoDocument
    /\ status = 0
    /\ verdict = "unknown"
    /\ iter = NoQuery
    /\ reply = NoReply
    /\ token = "t0"
    /\ peer = Idle

\* the credentials replace their token between two attempts of the call
Rotate ==
    /\ call.pc = "Waiting"
    /\ token = "t0"
    /\ token' = "t1"
    /\ UNCHANGED <<call, twin, store, status, verdict, iter, reply, peer>>

TokenNext ==
    \/ Start
    \/ ReadByName
    \/ ReadByNameAsync
    \/ Query
    \/ QueryAsync
    \/ Sleep
    \/ Delay
    \/ Rotate

TokenSpec == TokenInit /\ [][TokenNext]_vars

---------------------------------------------------------------------------
(* Two calls at the same time: a blocking one on a thread of its own and an
   async one, their attempts and waits interleaved in any order *)

ConcurrentInit ==
    /\ call \in {NewCall("exp_backoff", "op", secs) : secs \in 0..ConcurrentSecs}
    /\ peer \in {NewCall("exp_backoff_async", "op", secs) : secs \in 0..ConcurrentSecs}
    /\ twin = Idle
    /\ store = NoDocument
    /\ status = 0
    /\ verdict = "unknown"
    /\ iter = NoQuery
    /\ reply = NoReply
    /\ token = "t0"

PeerStart ==
    /\ peer.pc = "Building"
    /\ peer' = Started(peer)
    /\ UNCHANGED <<call, twin, store, status, verdict, iter, reply, token>>

PeerExpBackoffAsync ==
    /\ peer.op = "exp_backoff_async"
    /\ peer.pc = "InFlight"
    /\ \E in \in OpInputs : peer' = run_exp_backoff_async(peer, in)
    /\ UNCHANGED <<call, twin, store, status, verdict, iter, reply, token>>

PeerDelay ==
    /\ peer.pc = "Waiting"
    /\ peer' = Woken(peer)
    /\ UNCHANGED <<call, twin, store, status, verdict, iter, reply, token>>

ConcurrentNext ==
    \/ Start
    \/ ExpBackoff
    \/ Sleep
    \/ PeerStart
    \/ PeerExpBackoffAsync
    \/ PeerDelay

ConcurrentSpec == ConcurrentInit /\ [][ConcurrentNext]_vars

---------------------------------------------------------------------------
(* query and query_async assembling their request, for every argument *)

BuildInit ==
    /\ call \in {NewQueryCall(op, cid, w, o) :
                    op \in QueryOps, cid \in CollectionIds,
                    w \in WhereValues, o \in OrderByValues}
    /\ twin = Idle
    /\ peer = Idle
    /\ store = NoDocument
    /\ status = 0
    /\ verdict = "unknown"
    /\ iter = NoQuery
    /\ reply = NoReply
    /\ token = "t0"

BuildNext == Start

BuildSpec == BuildInit /\ [][BuildNext]_vars

---------------------------------------------------------------------------
(* Properties *)

\* the budget of a call in ticks, and the statuses the specification retries
Budget(c) == c.max_elapsed_time * TicksPerSec
RetrySet == {408, 409, 429} \cup {s \in Statuses : s \in 500..599}
Is2xx(s) == s \in 200..299

\* C1: when the operation's first invocation returns Permanent(e), the engine
\* has invoked it exactly once, has never waited, and the call has failed
\* with exactly e.
C1_PermanentFirstReturnsAtOnce ==
    (call.op \in RetryingOps /\ call.first.kind = "Permanent") =>
        /\ call.pc = "Failed"
        /\ call.attempts = 1
        /\ call.waits = 0
        /\ call.result = Err(call.first.val)

C1_Witness ==
    /\ call.op = "exp_backoff_async"
    /\ call.first = Outcome("Permanent", Payload("E", 0, "e2"))
    /\ call.pc = "Failed"

\* C2: exp_backoff with max_elapsed_time = T on an operation that has returned
\* Transient on every invocation: the attempts are bounded (each retry is
\* preceded by a wait of at least one tick, and a wait begins only while the
\* elapsed time has not exceeded T), an attempt starts at most one backoff
\* interval (the one just waited) past T, and the call fails, once the
\* elapsed time has exceeded T, with the error of its last attempt.
C2_AlwaysTransientStops ==
    (call.op = "exp_backoff" /\ call.attempts >= 1 /\ call.last.kind = "Transient") =>
        /\ call.attempts <= Budget(call) + 2
        /\ call.pc = "InFlight" => call.elapsed <= Budget(call) + call.wait
        /\ call.pc \in {"Waiting", "InFlight", "Failed"}
        /\ call.pc = "Waiting" => call.elapsed <= Budget(call)
        /\ call.pc = "Failed" =>
              /\ call.elapsed > Budget(call)
              /\ call.result = Err(call.last.val)

C2_Witness ==
    /\ call.op = "exp_backoff"
    /\ call.max_elapsed_time = 1
    /\ call.pc = "Failed"
    /\ call.last = Outcome("Transient", Payload("E", 0, "e2"))
    /\ call.attempts >= 3
    /\ call.elapsed - MaxAttemptTicks > Budget(call)

\* C3: the classifier answers for every u16 status, and answers "retryable"
\* exactly for 408, 409, 429 and 500..599.
C3_ClassifierExact ==
    /\ verdict \in {"unknown", "retryable", "final"}
    /\ verdict # "unknown" =>
          (verdict = "retryable" <=> status \in {408, 409, 429} \cup (500..599))

C3_Witness ==
    /\ status = 599
    /\ verdict = "retryable"

\* C4: in read_by_name and query (blocking and async) an attempt answered by
\* a non-2xx status is Transient exactly for 408, 409, 429 and 5xx; any other
\* status fails the call at once with the ApiError of that status and of the
\* requested resource (after one request and no wait when it is the first
\* attempt); a retryable status fails the call only once the elapsed time
\* has exceeded the budget, and else another attempt follows.
C4_StatusDecidesRetry ==
    LET s == call.last_send.status
    IN  (/\ call.op \in ReadOps \cup QueryOps
         /\ call.attempts >= 1
         /\ ~call.last_send.failed
         /\ ~Is2xx(s)) =>
            /\ call.last.kind = (IF s \in RetrySet THEN "Transient" ELSE "Permanent")
            /\ s \notin RetrySet =>
                  /\ call.pc = "Failed"
                  /\ call.result = Err(Payload("ApiError", s, ResourceOf(call.op)))
                  /\ call.requests = call.attempts
                  /\ call.attempts = 1 => (call.requests = 1 /\ call.waits = 0)
            /\ s \in RetrySet =>
                  /\ call.pc \in {"Waiting", "InFlight", "Failed"}
                  /\ call.pc = "Failed" => call.elapsed > Budget(call)

C4_Witness ==
    /\ call.op = "read_by_name"
    /\ call.pc = "Failed"
    /\ call.requests = 1
    /\ call.waits = 0
    /\ call.result = Err(Payload("ApiError", 404, "tests/doc"))

\* C5: a transport failure of send() in read_by_name or query (blocking or
\* async) is transient: the attempt is followed by another one unless the
\* elapsed time has exceeded the budget.
C5_NetworkErrorIsTransient ==
    (/\ call.op \in ReadOps \cup QueryOps
     /\ call.attempts >= 1
     /\ call.last_send.failed) =>
        /\ call.last.kind = "Transient"
        /\ call.pc = "Failed" => call.elapsed > Budget(call)

Edges ==
    {<<"Building", "InFlight">>, <<"InFlight", "Success">>, <<"InFlight", "Failed">>,
     <<"InFlight", "Waiting">>, <<"Waiting", "InFlight">>}

C7_VariantsAgree ==
    /\ twin.op = AsyncOf(call.op)
    /\ twin.pc = call.pc
    /\ twin.attempts = call.attempts
    /\ twin.requests = call.requests
    /\ twin.waits = call.waits
    /\ twin.wait = call.wait
    /\ twin.elapsed = call.elapsed
    /\ twin.last = call.last
    /\ twin.result = call.result

C7_Witness ==
    /\ call.op = "query"
    /\ twin.op = "query_async"
    /\ call.pc = "Failed"
    /\ twin.pc = "Failed"
    /\ call.attempts = 3
    /\ twin.attempts = 3
    /\ twin.result = Err(Payload("ApiError", 404, "tests"))

\* C8: a write or write_async with merge = true and an outgoing document
\* with field set F sends a request whose update mask has exactly one entry
\* for each field of F and no entry for any other field.
C8_MaskIsExactlyTheFields ==
    (call.op \in WriteOps /\ call.merge /\ call.pc # "Building") =>
        LET F == Range(call.document.fields.keys)
            M == FieldMask(call.request)
        IN  /\ \A f \in F : Cardinality({i \in DOMAIN M : M[i] = f}) = 1
            /\ \A i \in DOMAIN M : M[i] \in F

\* C9: every write with merge = true asserts that the target document exists,
\* whatever the outgoing document (field map absent or empty included), so a
\* merge write of a document the server does not hold fails and creates
\* nothing.
C9_MergeAssertsExistence ==
    (call.op \in WriteOps /\ call.merge /\ call.pc # "Building") =>
        /\ AssertsExists(call.request)
        /\ (call.document_id.some /\ ~call.existed /\ call.attempts >= 1) =>
              /\ call.pc = "Failed"
              /\ ~store.exists

\* C10: a write or write_async with merge = true and no document_id fails:
\* it returns an error and the collection gets no new document.
C10_MergeWithoutIdFails ==
    (/\ call.op \in WriteOps
     /\ call.merge
     /\ ~call.document_id.some
     /\ call.attempts >= 1) =>
        /\ call.pc = "Failed"
        /\ store.generated = 0

RECURSIVE DocumentsOf(_)
\* the documents of a list of envelopes, in the order of the envelopes
DocumentsOf(list) ==
    IF list = <<>> THEN <<>>
    ELSE (IF Head(list).document.some THEN <<Head(list).document.v>> ELSE <<>>)
             \o DocumentsOf(Tail(list))

\* C12: after every call of next() on a Query, the items yielded so far
\* followed by the documents of the envelopes not yet consumed are the
\* documents of the envelopes the Query was built from, in their order; every
\* item yielded is a document, never an empty item; next() returns None only
\* when every such document has been yielded, which takes at most one call
\* per envelope, and once it has returned None it returns None again and
\* yields nothing more.
C12_QueryYieldsDocuments ==
    [][ /\ iter'.yielded \o DocumentsOf(iter'.rest) = DocumentsOf(iter.envelopes)
        /\ iter'.envelopes = iter.envelopes
        /\ \A i \in DOMAIN iter'.yielded : iter'.yielded[i] \in {"doc1", "doc2"}
        /\ iter'.returned.some =>
              /\ iter'.yielded = Append(iter.yielded, iter'.returned.v)
              /\ Len(iter'.yielded) <= Len(iter.envelopes) - Len(iter'.rest)
        /\ ~iter'.returned.some =>
              /\ iter'.rest = <<>>
              /\ iter'.yielded = DocumentsOf(iter.envelopes)
              /\ iter'.yielded = iter.yielded
        /\ iter.nones >= 1 => (~iter'.returned.some /\ iter'.nones = iter.nones + 1)
      ]_vars

C12_Witness ==
    /\ iter.envelopes = << [document |-> None], [document |-> Some("doc2")],
                           [document |-> None], [document |-> Some("doc1")] >>
    /\ iter.yielded = <<"doc2", "doc1">>
    /\ iter.nones = 2

\* a piece of a name that is a segment of its own: not empty, not "." or ".."
NormalSegment(seg) == seg # <<>> /\ seg # <<".">> /\ seg # <<".", ".">>

\* C13: once write, write_async, create or create_async has looked at the
\* answered Document, the call has a WriteResult or an error.  In a
\* WriteResult the document_id is a segment of the name, not empty, with
\* nothing but empty or "." pieces after it, and it is the last piece when
\* the name is made of normal segments only; create_time and update_time
\* are None exactly when the answer has no such field.  An empty name, a
\* name without a last segment, and a timestamp that is present but not
\* RFC 3339 give an error.
C13_WriteResultFromAnswer ==
    reply.result # NoResult =>
        LET d == reply.document
            r == reply.result
            segs == SplitOn(d.name, "/")
            Malformed(t) == t.some /\ t.v = "midnight"
        IN  /\ r.tag \in {"Ok", "Err"}
            /\ r.tag = "Ok" =>
                  /\ r.val.document_id # <<>>
                  /\ \E i \in 1..Len(segs) :
                        /\ segs[i] = r.val.document_id
                        /\ NormalSegment(segs[i])
                        /\ \A k \in (i + 1)..Len(segs) : segs[k] \in {<<>>, <<".">>}
                  /\ r.val.create_time.some <=> d.create_time.some
                  /\ r.val.update_time.some <=> d.update_time.some
            /\ (\A i \in 1..Len(segs) : NormalSegment(segs[i])) =>
                  (r.tag = "Ok" => r.val.document_id = segs[Len(segs)])
            /\ (\A i \in 1..Len(segs) : ~NormalSegment(segs[i])) => r.tag = "Err"
            /\ (Malformed(d.create_time) \/ Malformed(d.update_time)) => r.tag = "Err"
            /\ (/\ \A i \in 1..Len(segs) : NormalSegment(segs[i])
                /\ ~Malformed(d.create_time)
                /\ ~Malformed(d.update_time)) => r.tag = "Ok"

C13_Witness ==
    /\ reply.op = "create_async"
    /\ reply.document.name = <<"x", "/", "x", ".">>
    /\ reply.document.create_time = Some("01:00:00+01:00")
    /\ reply.document.update_time = None
    /\ reply.result = Ok([document_id |-> <<"x", ".">>,
                          create_time |-> Some("00:00:00"),
                          update_time |-> None])

\* C14: every attempt of a read_by_name or query call (blocking or async)
\* sends a request that carries the token the credentials hold at the moment
\* of that attempt; after a refresh between two attempts the later attempt
\* carries the new token.
C14_TokenReadPerAttempt ==
    [][ (/\ call.op \in ReadOps \cup QueryOps
         /\ call'.attempts = call.attempts + 1) =>
            /\ call'.requests = call.requests + 1
            /\ call'.sent.bearer = token
            /\ token \in Tokens
      ]_vars

C14_Witness ==
    /\ call.op = "query"
    /\ call.attempts = 3
    /\ call.first_sent.bearer = "t0"
    /\ call.sent.bearer = "t1"
    /\ token = "t1"

RECURSIVE Schedule(_)
\* the interval of a backoff that has handed out n intervals: 500 ms times
\* 1.5 to the n, at most 60 s
Schedule(n) ==
    IF n = 0 THEN 2
    ELSE LET prev == Schedule(n - 1)
         IN  IF prev * 3 >= 480 THEN 240 ELSE (prev * 3) \div 2

\* the state of call c is the state of a call that runs alone: its interval
\* follows from the number of its own waits, it waits only within its own
\* budget, gives up on a Transient error only beyond it, and ends with the
\* outcome of its own last attempt
RunsAlone(c) ==
    /\ c.attempts = c.waits + (IF c.pc \in {"Building", "InFlight"} THEN 0 ELSE 1)
    /\ c.current_interval = Schedule(c.waits + (IF c.pc = "Waiting" THEN 1 ELSE 0))
    /\ c.pc = "Waiting" =>
          /\ c.last.kind = "Transient"
          /\ c.elapsed <= Budget(c)
          /\ \E j \in Jitter : c.wait = Schedule(c.waits) + j * (Schedule(c.waits) \div 2)
    /\ c.pc = "Success" => (c.last.kind = "Ok" /\ c.result = Ok(c.last.val))
    /\ c.pc = "Failed" =>
          /\ c.last.kind \in {"Transient", "Permanent"}
          /\ c.result = Err(c.last.val)
          /\ c.last.kind = "Transient" => c.elapsed > Budget(c)

C16_ParseErrorEndsTheCall ==
    (/\ call.op \in ReadOps \cup QueryOps
     /\ call.attempts >= 1
     /\ ~call.last_send.failed
     /\ Is2xx(call.last_send.status)
     /\ \/ call.last_send.body = "malformed"
        \/ (call.op \in ReadOps /\ call.last_send.body = "null")) =>
        /\ call.pc = "Failed"
        /\ call.result = Err(ParseError)
        /\ call.requests = call.attempts

C16_Witness ==
    /\ call.op = "read_by_name"
    /\ call.attempts = 2
    /\ call.requests = 2
    /\ call.last_send = Response(200, "malformed")
    /\ call.elapsed <= Budget(call)
    /\ call.pc = "Failed"
    /\ call.result = Err(ParseError)

\* C17: when an invocation of the operation of exp_backoff or
\* exp_backoff_async returns Success(v), the call ends at once in Success
\* with the value v; it has then invoked the operation once more than it has
\* waited, that is k + 1 times after k Transient outcomes.  A call of any
\* operation that has reached Success or Failed makes no further attempt,
\* sends no further request and does not wait again.
C17_SuccessReturnsAndCallsEnd ==
    [][ /\ (/\ call.op \in EngineOps
             /\ call.pc = "InFlight"
             /\ call'.attempts = call.attempts + 1
             /\ call'.last.kind = "Ok") =>
                /\ call'.pc = "Success"
                /\ call'.result = Ok(call'.last.val)
                /\ call'.attempts = call'.waits + 1
                /\ call'.waits = call.waits
        /\ call.pc \in {"Success", "Failed"} =>
                /\ call'.pc = call.pc
                /\ call'.attempts = call.attempts
                /\ call'.requests = call.requests
                /\ call'.waits = call.waits
                /\ call'.result = call.result
      ]_vars

C17_Witness ==
    /\ call.op = "exp_backoff"
    /\ call.pc = "Success"
    /\ call.attempts = 3
    /\ call.waits = 2
    /\ call.elapsed <= Budget(call)
    /\ call.result = Ok(Payload("V", 0, "v1"))

\* C18: in read_by_name and query (blocking and async) the number of HTTP
\* requests sent always equals the number of invocations of the operation by
\* the engine, and the call has waited exactly once between two successive
\* invocations, each time after a Transient outcome and by the decision of
\* the engine: classification and error extraction add no request and no
\* wait.
C18_OneRequestPerAttempt ==
    call.op \in ReadOps \cup QueryOps =>
        /\ call.requests = call.attempts
        /\ call.attempts = call.waits + (IF call.pc \in {"Building", "InFlight"} THEN 0 ELSE 1)
        /\ call.pc = "Waiting" => call.last.kind = "Transient"

C18_Witness ==
    /\ call.op = "query_async"
    /\ call.pc = "Failed"
    /\ call.attempts = 3
    /\ call.requests = 3
    /\ call.waits = 2
    /\ call.last_send = Response(404, "json")

\* C19: the body query and query_async assemble is a structured query whose
\* `from` is the one collection the call was given; it has a filter exactly
\* when where_value is given, and the filter then holds that value (in the
\* representation of the database), that operator and that field path; it
\* has an orderBy list exactly when orderby_value is given, and the list then
\* has one entry for each pair, in the order of the pairs, with the field
\* path of the pair, marked descending exactly when the pair's ascending
\* flag is false.
C19_StructuredQueryShape ==
    (call.op \in QueryOps /\ call.pc # "Building") =>
        /\ call.request.json.structured_query # Absent
        /\ LET sq == call.request.json.structured_query[1]
               wv == call.where_value
               ov == call.orderby_value
           IN  /\ sq.from = Present(<< [collection_id |-> Present(call.resource)] >>)
               /\ (sq.where_ # Absent) <=> (wv # Absent)
               /\ wv # Absent =>
                     /\ sq.where_[1].field_filter # Absent
                     /\ sq.where_[1].field_filter[1].value.text = wv[1].value.text
                     /\ sq.where_[1].field_filter[1].value.tag =
                           (IF wv[1].value.type = "String" THEN "stringValue" ELSE "integerValue")
                     /\ sq.where_[1].field_filter[1].op = wv[1].op
                     /\ sq.where_[1].field_filter[1].field.field_path = wv[1].field
               /\ (sq.order_by # Absent) <=> (ov # Absent)
               /\ ov # Absent =>
                     /\ Len(sq.order_by[1]) = Len(ov[1])
                     /\ \A i \in 1..Len(ov[1]) :
                           /\ sq.order_by[1][i].field = Present([field_path |-> ov[1][i].field])
                           /\ (sq.order_by[1][i].direction = Present("desc")) <=> ~ov[1][i].asc
                           /\ ov[1][i].asc => sq.order_by[1][i].direction = Absent

C19_Witness ==
    /\ call.op = "query_async"
    /\ call.pc = "InFlight"
    /\ call.resource = "users"
    /\ call.where_value = Absent
    /\ call.orderby_value =
          Present(<< [field |-> "age", asc |-> FALSE], [field |-> "id", asc |-> TRUE] >>)
    /\ call.request.json.structured_query[1].where_ = Absent
    /\ call.request.json.structured_query[1].order_by =
          Present(<< [field |-> Present([field_path |-> "age"]), direction |-> Present("desc")],
                     [field |-> Present([field_path |-> "id"]), direction |-> Absent] >>)

\* what a request is apart from its token
UrlVerbBody(r) == [verb |-> r.verb, target |-> r.target, query |-> r.query, json |-> r.json]

\* C20: in a read_by_name or query call (blocking or async) every attempt
\* sends the url, the verb and the body that the call assembled before its
\* first attempt: those of the latest attempt are those of the first one,
\* GET on the document for a read, POST of the one structured query for a
\* query; the bearer token is the only part that may differ.
C20_SameRequestEveryAttempt ==
    (call.op \in ReadOps \cup QueryOps /\ call.attempts >= 1) =>
        /\ UrlVerbBody(call.sent) = UrlVerbBody(call.first_sent)
        /\ UrlVerbBody(call.sent) = call.request
        /\ call.op \in ReadOps =>
              /\ call.sent.verb = "GET"
              /\ call.sent.target = [kind |-> "document", id |-> call.resource]
        /\ call.op \in QueryOps =>
              /\ call.sent.verb = "POST"
              /\ call.sent.target = [kind |-> "runQuery", id |-> ""]
              /\ call.sent.json.structured_query[1].from =
                    Present(<< [collection_id |-> Present(call.resource)] >>)
              /\ call.sent.json.structured_query[1].where_ # Absent
              /\ Len(call.sent.json.structured_query[1].order_by[1]) = 2

C20_Witness ==
    /\ call.op = "read_by_name_async"
    /\ call.attempts = 2
    /\ call.first_sent.bearer = "t0"
    /\ call.sent.bearer = "t1"
    /\ call.first_sent.target = [kind |-> "document", id |-> "tests/doc"]
    /\ call.sent.target = [kind |-> "document", id |-> "tests/doc"]
    /\ call.sent.verb = "GET"

\* C21: a call of exp_backoff / exp_backoff_async (made directly or by a read
\* or a query) that has returned, has waited, or holds an answer of the engine
\* has invoked the operation at least once, whatever max_elapsed_time is, 0
\* included; a call that has not invoked it yet is still before its first
\* attempt, with no result and no error.
C21_AttemptBeforeAnyReturn ==
    call.op \in RetryingOps =>
        /\ call.pc \in {"Waiting", "Returned", "Success", "Failed"} => call.attempts >= 1
        /\ call.engine # NoResult => call.attempts >= 1
        /\ call.result # NoResult => call.attempts >= 1
        /\ call.attempts = 0 =>
              /\ call.pc \in {"Building", "InFlight"}
              /\ call.waits = 0
              /\ call.elapsed = 0

C21_Witness ==
    /\ call.op = "exp_backoff"
    /\ call.max_elapsed_time = 0
    /\ call.pc = "Failed"
    /\ call.attempts = 1
    /\ call.raw.kind = "Transient"
    /\ call.result = Err(call.last.val)

\* C22: when the 2xx answer to a query has the JSON body null, query and
\* query_async return Ok with a Query built from no envelope at all, and
\* every next() on it answers None: no document is yielded and no error is
\* returned.
C22_NullBodyIsEmptyQuery ==
    (reply.op \in QueryOps /\ reply.tag # "None" /\ reply.body.ctx = "null") =>
        /\ reply.tag = "Ok"
        /\ reply.error = NoPayload
        /\ iter.envelopes = <<>>
        /\ iter.rest = <<>>
        /\ iter.yielded = <<>>
        /\ iter.returned = None

C22_Witness ==
    /\ reply.op = "query_async"
    /\ reply.body.ctx = "null"
    /\ reply.tag = "Ok"
    /\ iter.nones = MaxNones
    /\ iter.yielded = <<>>

====
